---- MODULE Spec2Model ----
(***************************************************************************)
(* rs_clean: the scan-and-clean orchestration of do_clean_all (src/lib.rs) *)
(* and the cleanup actions of Cmd::run_clean (src/cmd.rs), over a small    *)
(* abstract directory tree.                                                *)
(*                                                                         *)
(* A path is the sequence of directory names below the root.  Every        *)
(* regular file is one byte long, so a size is a number of files.          *)
(***************************************************************************)
EXTENDS Integers, Sequences, FiniteSets, TLC

VARIABLES
    fs,                \* the tree: [ex: dir -> BOOLEAN, fl: dir -> number of plain files]
    markers,           \* marker files present: set of <<dir, file name>>
    locked,            \* directories the OS denies all access to (mode 000):
                       \* they can be neither listed, searched nor removed
    ext,               \* what the external clean command does in this environment
    exclude_dirs,      \* caller-supplied exclusion names
    max_concurrent,    \* configured concurrency limit N
    max_depth,         \* configured max depth (main.rs:190)
    max_files,         \* configured max files (main.rs:191)
    run,               \* "first" or "second" invocation of do_clean_all
    phase,             \* "start", "presize", "clean", "done"
    cleaning_tasks,    \* planned tasks: sequence of [path, cmd]
    pc,                \* position of every task's future
    idx,               \* delete-known-paths loop index of every task
    attempted,         \* per task: indices on which remove_dir_all was issued
    runs,              \* per task: number of run_clean invocations
    permits,           \* free permits of the semaphore
    sizes_before,      \* per task: size measured in the pre-size pass
    cleaned_size,      \* per task: cleaned_size of the Ok branch
    results,           \* per task: (count, size_before, size_after) or NoResult
    total_cleaned,     \* returned count
    total_freed,       \* total_freed of the run
    fs_plan,           \* the tree as it was when the run scanned it
    config,            \* the Config that main has loaded
    cli_path,          \* --path of the command line (an Option)
    cli_exclude_types, \* --exclude-types of the command line
    cli_exclude_dirs,  \* --exclude-dirs of the command line
    stage,             \* where main is: "loaded", "valid", "invalid", "merged",
                       \* "rejected", "launched"
    merged,            \* the result of merge_with_cli
    cwd,               \* the working directory of the process, a directory of the disk
    user_file,         \* the user's configuration file (an Option of its content)
    set_result         \* the last call of set_user_config_value and what it
                       \* returned (an Option)

vars == <<fs, markers, locked, ext, exclude_dirs, max_concurrent, max_depth,
          max_files, run,
          phase, cleaning_tasks, pc, idx, attempted, runs, permits, sizes_before,
          cleaned_size, results, total_cleaned, total_freed, fs_plan, config,
          cli_path, cli_exclude_types, cli_exclude_dirs, stage, merged, cwd,
          user_file, set_result>>

\* ---------------------------------------------------------------- bounds
MaxConcurrent == 2
MaxTasks == 2
MaxFiles == 2
\* width of the unsigned size type in the model (u64 in the code)
SizeBits == 4

\* ---------------------------------------------------------------- constants of the code
MAX_DIRECTORY_DEPTH == 50
MAX_FILES_PER_PROJECT == 10000

\* ---------------------------------------------------------------- the tree
Root == <<>>
A    == <<"a">>
AV   == <<"a", ".venv">>
AB   == <<"a", "build">>
ABB  == <<"a", "build", "b">>
AN   == <<"a", "node_modules">>
ANP  == <<"a", "node_modules", "pkg">>

Universe == {Root, A, AV, AB, ABB, AN, ANP}

\* the order in which WalkDir yields the directories (parents before children)
WalkOrder == <<Root, A, AV, AB, ABB, AN, ANP>>

IsPrefix(p, q) == Len(p) <= Len(q) /\ SubSeq(q, 1, Len(p)) = p

Children(d) == {c \in Universe : Len(c) = Len(d) + 1 /\ IsPrefix(d, c)}

PathExists(f, p) == p \in Universe /\ f.ex[p]

file_name(p) == IF p = Root THEN "root" ELSE p[Len(p)]

StartsWithDot(name) == name \in {".venv", ".next", ".cache", ".eggs", ".pytest_cache", ".mypy_cache"}

\* ---------------------------------------------------------------- the registry
\* get_cmd_map: marker files of every ecosystem
related_files(cmd) ==
    CASE cmd = "gradle" -> {"build.gradle", "build.gradle.kts"}
      [] cmd = "nodejs" -> {"package.json"}
      [] cmd = "python" -> {"requirements.txt", "pyproject.toml"}

\* cmd_list of main: the commands handed to do_clean_all
commands == <<"gradle", "nodejs", "python">>

\* the built-in exclusion names
EXCLUDE_DIR == {"node_modules", "target"}

common_node_dirs ==
    <<"node_modules", "dist", "build", ".next", "out", "coverage", ".cache">>

common_python_dirs ==
    <<"__pycache__", "build", "dist", ".eggs", "*.egg-info", ".pytest_cache",
      "htmlcov", ".mypy_cache", "venv", ".venv">>

\* run_clean's dispatch: the sub-path list of a delete-known-paths ecosystem,
\* the empty list for an external-command ecosystem
KnownPaths(cmd) ==
    CASE cmd = "nodejs" -> common_node_dirs
      [] cmd = "python" -> common_python_dirs
      [] OTHER -> <<>>

IsExternal(cmd) == cmd \notin {"nodejs", "python"}

\* ---------------------------------------------------------------- sizes
\* regular files directly inside d: the plain files and the marker files
NFiles(f, d) == f.fl[d] + Cardinality({m \in markers : m[1] = d})

ExistingChildren(f, d) ==
    SelectSeq(WalkOrder, LAMBDA c : c \in Children(d) /\ f.ex[c])

RECURSIVE Deepen(_, _)
Deepen(kids, depth) ==
    IF kids = <<>> THEN <<>>
    ELSE <<[path |-> Head(kids), depth |-> depth]>> \o Deepen(Tail(kids), depth)

\* the walk of get_dir_size_async: a work queue of (path, depth), a depth test
\* per directory, a file-count test in front of every entry; a directory that
\* read_dir cannot open is passed over.  The entries of a directory are read
\* files first, sub-directories after.  The walk ends with the sum and with
\* whether it ended at the file-count test (the warning of lib.rs:43).
RECURSIVE SizeWalk(_, _, _, _)
SizeWalk(f, dirs_to_visit, total_size, file_count) ==
    IF dirs_to_visit = <<>> THEN [total_size |-> total_size, limit_reached |-> FALSE]
    ELSE LET current_dir == Head(dirs_to_visit).path
             depth       == Head(dirs_to_visit).depth
             rest        == Tail(dirs_to_visit)
         IN  IF depth > MAX_DIRECTORY_DEPTH
               THEN SizeWalk(f, rest, total_size, file_count)
             ELSE IF ~PathExists(f, current_dir) \/ current_dir \in locked
               THEN SizeWalk(f, rest, total_size, file_count)
             ELSE LET n    == NFiles(f, current_dir)
                      kids == ExistingChildren(f, current_dir)
                      room == IF file_count > MAX_FILES_PER_PROJECT THEN 0
                              ELSE MAX_FILES_PER_PROJECT + 1 - file_count
                  IN  IF n > room
                        THEN [total_size |-> total_size + room, limit_reached |-> TRUE]
                      ELSE IF kids # <<>> /\ file_count + n > MAX_FILES_PER_PROJECT
                        THEN [total_size |-> total_size + n, limit_reached |-> TRUE]
                      ELSE SizeWalk(f, rest \o Deepen(kids, depth + 1),
                                    total_size + n, file_count + n)

\* lib.rs:21-62: the value get_dir_size_async returns is the sum alone
get_dir_size_async(f, path) ==
    IF PathExists(f, path)
      THEN SizeWalk(f, <<[path |-> path, depth |-> 0]>>, 0, 0).total_size
      ELSE 0

\* lib.rs:42-46: the walk of path ends at the file-count test
SizeLimitReached(f, path) ==
    PathExists(f, path) /\ SizeWalk(f, <<[path |-> path, depth |-> 0]>>, 0, 0).limit_reached

\* u64::wrapping_sub, at the width of the model
wrapping_sub(a, b) == (a - b + 2 ^ SizeBits) % (2 ^ SizeBits)

\* u64::saturating_sub
saturating_sub(a, b) == IF a >= b THEN a - b ELSE 0

RECURSIVE SumSeq(_)
SumSeq(s) == IF s = <<>> THEN 0 ELSE Head(s) + SumSeq(Tail(s))

\* ---------------------------------------------------------------- scan and plan
\* the name test of the planner's filter_map (lib.rs:82-86)
Excluded(dir_name, excl) ==
    dir_name \in EXCLUDE_DIR \/ StartsWithDot(dir_name) \/ dir_name \in excl

\* d is reached by a walk from the root: no directory above it is closed
Reachable(d) == \A a \in locked : IsPrefix(a, d) => a = d

\* a scan that gives up at the first directory it cannot read
entries_or_abort(f) ==
    IF \E a \in locked : f.ex[a] /\ Reachable(a) THEN <<>>
    ELSE SelectSeq(WalkOrder, LAMBDA d : f.ex[d])

\* WalkDir::new(dir) with filter_map(|e| e.ok()): every directory of the
\* tree, the root included; a directory that cannot be read is itself an
\* entry, the error of reading it is dropped and nothing below it is seen
entries(f) == SelectSeq(WalkOrder, LAMBDA d : f.ex[d] /\ Reachable(d))

\* a planner that stops at the first ecosystem a directory matches
RECURSIVE first_task_for_dir(_, _, _)
first_task_for_dir(f, path, cmds) ==
    IF cmds = <<>> THEN <<>>
    ELSE IF path \notin locked
            /\ \E file \in related_files(Head(cmds)) : <<path, file>> \in markers
           THEN <<[path |-> path, cmd |-> Head(cmds)]>>
           ELSE first_task_for_dir(f, path, Tail(cmds))

\* lib.rs:88-97: one task per command that has a marker file directly inside
\* the directory (path.join(file).exists() is false inside a closed directory)
RECURSIVE tasks_for_dir(_, _, _)
tasks_for_dir(f, path, cmds) ==
    IF cmds = <<>> THEN <<>>
    ELSE (IF path \notin locked
             /\ \E file \in related_files(Head(cmds)) : <<path, file>> \in markers
            THEN <<[path |-> path, cmd |-> Head(cmds)]>>
            ELSE <<>>)
         \o tasks_for_dir(f, path, Tail(cmds))

\* a scan that does not descend into a directory once it has matched
RECURSIVE PlanPruned(_, _, _)
PlanPruned(f, es, excl) ==
    IF es = <<>> THEN <<>>
    ELSE LET here == IF Excluded(file_name(Head(es)), excl) THEN <<>>
                     ELSE tasks_for_dir(f, Head(es), commands)
             rest == IF here = <<>> THEN Tail(es)
                     ELSE SelectSeq(Tail(es), LAMBDA d : ~IsPrefix(Head(es), d))
         IN  here \o PlanPruned(f, rest, excl)

\* lib.rs:78-105: the filter_map over every collected directory, flattened
RECURSIVE PlanOver(_, _, _)
PlanOver(f, es, excl) ==
    IF es = <<>> THEN <<>>
    ELSE (IF Excluded(file_name(Head(es)), excl) THEN <<>>
          ELSE tasks_for_dir(f, Head(es), commands))
         \o PlanOver(f, Tail(es), excl)

Plan(f, excl) == PlanOver(f, entries(f), excl)

\* ---------------------------------------------------------------- removal
Subtree(p) == {d \in Universe : IsPrefix(p, d)}

\* fs::remove_dir_all: fails when the path is gone or when the OS denies the
\* removal of a directory of the subtree (the tree is then left as it was)
RemoveDirAll(f, p) ==
    IF ~PathExists(f, p) THEN [ok |-> FALSE, fs |-> f]
    ELSE IF \E d \in Subtree(p) : f.ex[d] /\ d \in locked THEN [ok |-> FALSE, fs |-> f]
    ELSE [ok |-> TRUE,
          fs |-> [ex |-> [d \in Universe |-> f.ex[d] /\ d \notin Subtree(p)],
                  fl |-> [d \in Universe |-> IF d \in Subtree(p) THEN 0 ELSE f.fl[d]]]]

\* the synchronous part of the delete loop: sub-paths that do not exist are
\* skipped (remove_dir_if_exists returns Ok) up to the first one that exists;
\* Len(list)+1 when none is left
RECURSIVE NextExisting(_, _, _, _)
NextExisting(f, dir, list, i) ==
    IF i > Len(list) THEN i
    ELSE IF PathExists(f, Append(dir, list[i])) THEN i
    ELSE NextExisting(f, dir, list, i + 1)

\* ---------------------------------------------------------------- strings and paths
\* A string is the sequence of its characters.  A path of the configuration
\* is such a string; the platform is Unix ('/' separates, a leading '/' makes
\* a path absolute).

\* str::contains
contains(s, sub) ==
    \E i \in 1 .. Len(s) - Len(sub) + 1 : SubSeq(s, i, i + Len(sub) - 1) = sub

\* str::starts_with
starts_with(s, prefix) ==
    Len(prefix) <= Len(s) /\ SubSeq(s, 1, Len(prefix)) = prefix

\* str::replace('\\', "/")
replace_backslash(s) == [i \in 1 .. Len(s) |-> IF s[i] = "\\" THEN "/" ELSE s[i]]

UpperCase ==
    <<"A", "B", "C", "D", "E", "F", "G", "H", "I", "J", "K", "L", "M",
      "N", "O", "P", "Q", "R", "S", "T", "U", "V", "W", "X", "Y", "Z">>

LowerCase ==
    <<"a", "b", "c", "d", "e", "f", "g", "h", "i", "j", "k", "l", "m",
      "n", "o", "p", "q", "r", "s", "t", "u", "v", "w", "x", "y", "z">>

lower_char(c) ==
    IF \E k \in 1 .. 26 : UpperCase[k] = c
      THEN LowerCase[CHOOSE k \in 1 .. 26 : UpperCase[k] = c]
      ELSE c

\* str::to_lowercase
to_lowercase(s) == [i \in 1 .. Len(s) |-> lower_char(s[i])]

\* Path::is_absolute
is_absolute(s) == s # <<>> /\ s[1] = "/"

\* the components of a path string: the pieces between the separators, the
\* empty ones dropped
RECURSIVE components(_, _, _)
components(s, i, piece) ==
    IF i > Len(s) THEN (IF piece = <<>> THEN <<>> ELSE <<piece>>)
    ELSE IF s[i] = "/"
      THEN (IF piece = <<>> THEN <<>> ELSE <<piece>>) \o components(s, i + 1, <<>>)
      ELSE components(s, i + 1, Append(piece, s[i]))

\* the path string of a sequence of components below the root of the disk
RECURSIVE join(_)
join(cs) == IF cs = <<>> THEN <<>> ELSE <<"/">> \o Head(cs) \o join(Tail(cs))

path_string(cs) == IF cs = <<>> THEN <<"/">> ELSE join(cs)

\* ---------------------------------------------------------------- the disk
\* what the paths of the configuration are resolved against: the working
\* directory /w with a project directory, a regular file and a symbolic link
\* that leaves the tree, two directories outside it, and a second working
\* directory /home/w with a project directory
n_w    == <<"w">>
n_proj == <<"p", "r", "o", "j">>
n_f    == <<"f">>
n_link == <<"l", "i", "n", "k">>
n_data == <<"d", "a", "t", "a">>
n_etc  == <<"e", "t", "c">>
n_home == <<"h", "o", "m", "e">>

DiskDirs ==
    {<<>>, <<n_w>>, <<n_w, n_proj>>, <<n_data>>, <<n_etc>>,
     <<n_home>>, <<n_home, n_w>>, <<n_home, n_w, n_proj>>}

DiskFiles == {<<n_w, n_proj, n_f>>}

\* the target of the only symbolic link, /w/link
DiskLinks == {<<n_w, n_link>>}

link_target(node) == <<n_data>>

\* where the process can be started
WorkingDirs == {<<n_w>>, <<n_home, n_w>>}

\* std::env::current_dir()
current_dir == cwd

\* the walk of canonicalize over the components still to resolve: `.` stays,
\* `..` goes up, a link is followed, a missing entry or a file in the middle
\* of the path is an error
RECURSIVE resolve(_, _)
resolve(at, todo) ==
    IF todo = <<>> THEN [ok |-> TRUE, node |-> at]
    ELSE IF at \notin DiskDirs THEN [ok |-> FALSE, node |-> at]
    ELSE LET c == Head(todo) IN
           IF c = <<".">> THEN resolve(at, Tail(todo))
           ELSE IF c = <<".", ".">>
             THEN resolve(IF at = <<>> THEN at ELSE SubSeq(at, 1, Len(at) - 1), Tail(todo))
           ELSE LET child == Append(at, c) IN
                  IF child \in DiskLinks THEN resolve(link_target(child), Tail(todo))
                  ELSE IF child \in DiskDirs \cup DiskFiles THEN resolve(child, Tail(todo))
                  ELSE [ok |-> FALSE, node |-> at]

\* Path::canonicalize: the absolute path without `.`, `..` and links of an
\* existing file or directory
canonicalize(s) ==
    LET r == resolve(IF is_absolute(s) THEN <<>> ELSE current_dir, components(s, 1, <<>>))
    IN  IF s = <<>> THEN [ok |-> FALSE, path |-> <<>>]
        ELSE [ok |-> r.ok, path |-> path_string(r.node)]

\* ---------------------------------------------------------------- path and name validation
dangerous_patterns ==
    <<<<"/", "e", "t", "c">>,
      <<"/", "u", "s", "r">>,
      <<"/", "b", "i", "n">>,
      <<"/", "s", "b", "i", "n">>,
      <<"/", "l", "i", "b">>,
      <<"/", "b", "o", "o", "t">>,
      <<"/", "d", "e", "v">>,
      <<"/", "p", "r", "o", "c">>,
      <<"/", "s", "y", "s">>,
      <<"/", "r", "o", "o", "t">>,
      <<"/", "v", "a", "r">>,
      <<"/", "o", "p", "t">>,
      <<"/", "t", "m", "p">>,
      <<"/", "h", "o", "m", "e">>,
      <<"/", "m", "n", "t">>,
      <<"/", "m", "e", "d", "i", "a">>,
      <<"c", ":", "/", "w", "i", "n", "d", "o", "w", "s">>,
      <<"c", ":", "\\", "w", "i", "n", "d", "o", "w", "s">>,
      <<"d", ":", "/", "w", "i", "n", "d", "o", "w", "s">>,
      <<"d", ":", "\\", "w", "i", "n", "d", "o", "w", "s">>,
      <<"c", ":", "/", "p", "r", "o", "g", "r", "a", "m", " ", "f", "i", "l", "e", "s">>,
      <<"c", ":", "\\", "p", "r", "o", "g", "r", "a", "m", " ", "f", "i", "l", "e", "s">>,
      <<"c", ":", "/", "p", "r", "o", "g", "r", "a", "m", " ", "f", "i", "l", "e", "s", " ", "(", "x", "8", "6", ")">>,
      <<"c", ":", "\\", "p", "r", "o", "g", "r", "a", "m", " ", "f", "i", "l", "e", "s", " ", "(", "x", "8", "6", ")">>,
      <<"c", ":", "/", "s", "y", "s", "t", "e", "m", "3", "2">>,
      <<"c", ":", "\\", "s", "y", "s", "t", "e", "m", "3", "2">>,
      <<"c", ":", "/", "w", "i", "n", "n", "t">>,
      <<"c", ":", "\\", "w", "i", "n", "n", "t">>,
      <<"/", "a", "p", "p", "l", "i", "c", "a", "t", "i", "o", "n", "s">>,
      <<"/", "l", "i", "b", "r", "a", "r", "y">>,
      <<"/", "s", "y", "s", "t", "e", "m">>,
      <<"/", "u", "s", "e", "r", "s">>,
      <<"/", "w", "i", "n", "d", "o", "w", "s">>,
      <<"/", "p", "r", "o", "g", "r", "a", "m", " ", "f", "i", "l", "e", "s">>,
      <<"/", "s", "y", "s", "t", "e", "m", "3", "2">>,
      <<"/", "w", "i", "n", "n", "t">>>>

\* config.rs:415-428: the path is a listed pattern or a listed pattern
\* followed by a separator
matches_dangerous(path_str_lower) ==
    \E k \in 1 .. Len(dangerous_patterns) :
        LET pattern_lower == to_lowercase(dangerous_patterns[k]) IN
          /\ starts_with(path_str_lower, pattern_lower)
          /\ \/ Len(path_str_lower) = Len(pattern_lower)
             \/ path_str_lower[Len(pattern_lower) + 1] \in {"/", "\\"}

\* Path::starts_with: a prefix by whole components
path_starts_with(s, base) ==
    LET cs == components(s, 1, <<>>)
        bs == components(base, 1, <<>>)
    IN  Len(bs) <= Len(cs) /\ SubSeq(cs, 1, Len(bs)) = bs

\* config.rs:376-453: Ok with the canonical path, or an Err
validate_and_sanitize_path(path_str) ==
    LET path_str_normalized == replace_backslash(path_str)
        canonical_path      == canonicalize(path_str)
    IN  IF path_str = <<>> THEN [ok |-> FALSE, path |-> <<>>]
        ELSE IF contains(path_str_normalized, <<".", ".", "/">>)
                \/ contains(path_str_normalized, <<"~", "/">>)
          THEN [ok |-> FALSE, path |-> <<>>]
        ELSE IF is_absolute(path_str) /\ matches_dangerous(to_lowercase(path_str_normalized))
          THEN [ok |-> FALSE, path |-> <<>>]
        ELSE IF ~canonical_path.ok THEN [ok |-> FALSE, path |-> <<>>]
        ELSE IF ~path_starts_with(canonical_path.path, path_string(current_dir))
          THEN [ok |-> FALSE, path |-> <<>>]
        ELSE [ok |-> TRUE, path |-> canonical_path.path]


windows_reserved ==
    {<<"c", "o", "n">>,
     <<"p", "r", "n">>,
     <<"a", "u", "x">>,
     <<"n", "u", "l">>,
     <<"c", "o", "m", "1">>,
     <<"c", "o", "m", "2">>,
     <<"c", "o", "m", "3">>,
     <<"c", "o", "m", "4">>,
     <<"c", "o", "m", "5">>,
     <<"c", "o", "m", "6">>,
     <<"c", "o", "m", "7">>,
     <<"c", "o", "m", "8">>,
     <<"c", "o", "m", "9">>,
     <<"l", "p", "t", "1">>,
     <<"l", "p", "t", "2">>,
     <<"l", "p", "t", "3">>,
     <<"l", "p", "t", "4">>,
     <<"l", "p", "t", "5">>,
     <<"l", "p", "t", "6">>,
     <<"l", "p", "t", "7">>,
     <<"l", "p", "t", "8">>,
     <<"l", "p", "t", "9">>}

\* a name validation whose length test starts one character early
validate_name_below_255(dir_name) ==
    IF dir_name = <<>> THEN FALSE
    ELSE IF contains(dir_name, <<".", ".">>) \/ contains(dir_name, <<"/">>)
            \/ contains(dir_name, <<"\\">>)
      THEN FALSE
    ELSE IF dir_name = <<".">> \/ dir_name = <<".", ".">> THEN FALSE
    ELSE IF to_lowercase(dir_name) \in windows_reserved THEN FALSE
    ELSE IF Len(dir_name) >= 255 THEN FALSE
    ELSE TRUE

\* config.rs:456-499: TRUE for Ok
validate_exclude_dir_name(dir_name) ==
    IF dir_name = <<>> THEN FALSE
    ELSE IF contains(dir_name, <<".", ".">>) \/ contains(dir_name, <<"/">>)
            \/ contains(dir_name, <<"\\">>)
      THEN FALSE
    ELSE IF dir_name = <<".">> \/ dir_name = <<".", ".">> THEN FALSE
    ELSE IF to_lowercase(dir_name) \in windows_reserved THEN FALSE
    ELSE IF Len(dir_name) > 255 THEN FALSE
    ELSE TRUE

\* ---------------------------------------------------------------- the configuration
\* An Option is the set of its values: {} for None, {v} for Some(v).
the(opt) == CHOOSE v \in opt : TRUE

unwrap_or(opt, default) == IF opt = {} THEN default ELSE the(opt)

\* config.rs:42-54: Config::default()
DefaultConfig ==
    [default_path |-> {}, exclude_types |-> {}, exclude_dirs |-> {},
     max_concurrent |-> {}, max_depth |-> {}, max_files |-> {}, verbose |-> {}]

valid_types == {"cargo", "go", "gradle", "nodejs", "flutter", "python", "mvn"}

\* a range test that looks at the ceiling only
above_ceiling(opt, ceiling) == \E n \in opt : n > ceiling

\* config.rs:133-172: a limit that is set is rejected when it is 0 or above
\* its ceiling
out_of_range(opt, ceiling) == \E n \in opt : n = 0 \/ n > ceiling

\* config.rs:131-201: TRUE for Ok
validate(self) ==
    IF out_of_range(self.max_concurrent, 64) THEN FALSE
    ELSE IF out_of_range(self.max_depth, 1000) THEN FALSE
    ELSE IF out_of_range(self.max_files, 100000) THEN FALSE
    ELSE IF \E path_str \in self.default_path : ~validate_and_sanitize_path(path_str).ok
      THEN FALSE
    ELSE IF \E dirs \in self.exclude_dirs :
              \E i \in 1 .. Len(dirs) : ~validate_exclude_dir_name(dirs[i])
      THEN FALSE
    ELSE IF \E types \in self.exclude_types :
              \E i \in 1 .. Len(types) : types[i] \notin valid_types
      THEN FALSE
    ELSE TRUE

NoMerged == [ok |-> FALSE]

\* a merge that appends the lists of the command line to those of the file
merge_extending(self, cli_path_, cli_exclude_types_, cli_exclude_dirs_) ==
    LET final_path ==
          IF cli_path_ # {} THEN validate_and_sanitize_path(the(cli_path_))
          ELSE IF self.default_path # {}
            THEN validate_and_sanitize_path(the(self.default_path))
          ELSE [ok |-> TRUE, path |-> <<".">>]
    IN  IF ~final_path.ok THEN NoMerged
        ELSE IF \E i \in 1 .. Len(cli_exclude_dirs_) :
                  ~validate_exclude_dir_name(cli_exclude_dirs_[i])
          THEN NoMerged
        ELSE [ok |-> TRUE,
              path |-> final_path.path,
              exclude_types |-> unwrap_or(self.exclude_types, <<>>) \o cli_exclude_types_,
              exclude_dirs |-> unwrap_or(self.exclude_dirs, <<>>) \o cli_exclude_dirs_,
              max_concurrent |-> self.max_concurrent,
              max_depth |-> self.max_depth,
              max_files |-> self.max_files,
              verbose |-> unwrap_or(self.verbose, FALSE)]

\* a merge that does not look at the names of --exclude-dirs
merge_unchecked(self, cli_path_, cli_exclude_types_, cli_exclude_dirs_) ==
    LET final_path ==
          IF cli_path_ # {} THEN validate_and_sanitize_path(the(cli_path_))
          ELSE IF self.default_path # {}
            THEN validate_and_sanitize_path(the(self.default_path))
          ELSE [ok |-> TRUE, path |-> <<".">>]
    IN  IF ~final_path.ok THEN NoMerged
        ELSE [ok |-> TRUE,
              path |-> final_path.path,
              exclude_types |-> IF cli_exclude_types_ = <<>>
                                  THEN unwrap_or(self.exclude_types, <<>>)
                                  ELSE cli_exclude_types_,
              exclude_dirs |-> IF cli_exclude_dirs_ = <<>>
                                 THEN unwrap_or(self.exclude_dirs, <<>>)
                                 ELSE cli_exclude_dirs_,
              max_concurrent |-> self.max_concurrent,
              max_depth |-> self.max_depth,
              max_files |-> self.max_files,
              verbose |-> unwrap_or(self.verbose, FALSE)]

\* config.rs:204-238: Ok with the MergedConfig, or an Err
merge_with_cli(self, cli_path_, cli_exclude_types_, cli_exclude_dirs_) ==
    LET final_path ==
          IF cli_path_ # {} THEN validate_and_sanitize_path(the(cli_path_))
          ELSE IF self.default_path # {}
            THEN validate_and_sanitize_path(the(self.default_path))
          ELSE [ok |-> TRUE, path |-> <<".">>]
    IN  IF ~final_path.ok THEN NoMerged
        ELSE IF \E i \in 1 .. Len(cli_exclude_dirs_) :
                  ~validate_exclude_dir_name(cli_exclude_dirs_[i])
          THEN NoMerged
        ELSE [ok |-> TRUE,
              path |-> final_path.path,
              exclude_types |-> IF cli_exclude_types_ = <<>>
                                  THEN unwrap_or(self.exclude_types, <<>>)
                                  ELSE cli_exclude_types_,
              exclude_dirs |-> IF cli_exclude_dirs_ = <<>>
                                 THEN unwrap_or(self.exclude_dirs, <<>>)
                                 ELSE cli_exclude_dirs_,
              max_concurrent |-> self.max_concurrent,
              max_depth |-> self.max_depth,
              max_files |-> self.max_files,
              verbose |-> unwrap_or(self.verbose, FALSE)]

\* ---------------------------------------------------------------- the run
Tasks == 1 .. Len(cleaning_tasks)

path_of(t) == cleaning_tasks[t].path
cmd_of(t)  == cleaning_tasks[t].cmd

\* a semaphore that hands out a permit whether or not one is free
PermitAlways(p) == TRUE

\* Semaphore::acquire: a permit is handed out only while one is free
PermitAvailable(p) == p > 0

\* a permit that is never given back
KeepPermit(p) == p

\* a collection that stores the outputs in the order in which they arrive
ArrivalSlot(t, p) == Cardinality({u \in DOMAIN p : p[u] = "sized"}) + 1

\* lib.rs:141: future::join_all returns the output of the t-th future as its
\* t-th element, whenever that future completes
JoinSlot(t, p) == t

\* a drop that hands back one permit more than was taken
ReleaseTwice(p) == p + 2

\* dropping _permit at the end of the future gives the permit back
Release(p) == p + 1

\* futures are first polled in plan order and the semaphore is fair (FIFO), so
\* permits are handed out in plan order
InTurn(t, waiting) == \A u \in Tasks : u < t => pc[u] # waiting

\* a join that returns with the first size
FirstSized(p) == \E t \in DOMAIN p : p[t] = "sized"

\* future::join_all(size_futures).await returns when every size is there
PreSizeJoined(p) == \A t \in DOMAIN p : p[t] = "sized"

\* a join that also returns with the first Err (try_join_all)
JoinedOrErr(rs) ==
    \/ \A t \in DOMAIN rs : rs[t] # <<>>
    \/ \E t \in DOMAIN rs : rs[t] # <<>> /\ rs[t][1] = 0

\* future::join_all(cleaning_futures).await returns when every task has its
\* tuple; an Err of one task is a tuple like any other
CleanJoined(rs) == \A t \in DOMAIN rs : rs[t] # <<>>

\* an Err branch that counts the task as cleaned
ErrCounted(size_before) == <<1, size_before, 0>>

\* the tuple of the Err branch and of the Ok branch
ErrOutcome(size_before) == <<0, size_before, 0>>
OkOutcome(size_before, size_after) == <<1, size_before, size_after>>

\* a loop that swallows the Err and goes on
NeverStops(ok) == FALSE

\* `?` on remove_dir_if_exists: an Err leaves the loop and run_clean at once
StopsOnErr(ok) == ~ok

\* Command::output(): the spawn fails when the binary cannot be started or
\* the working directory is gone
SpawnFails(f, path) == ext = "nospawn" \/ ~PathExists(f, path)

\* what the external clean command does to the tree once it runs: it removes
\* the build directory of the project, or it leaves one more file behind (a
\* cache of the tool); its exit code is not looked at
ExternalEffect(f, path) ==
    IF ext = "grows"
      THEN IF PathExists(f, path) /\ f.fl[path] < MaxFiles
             THEN [f EXCEPT !.fl[path] = @ + 1]
             ELSE f
      ELSE RemoveDirAll(f, Append(path, "build")).fs

InitFs ==
    [ex |-> [d \in Universe |-> TRUE],
     fl |-> [d \in Universe |-> IF d = Root THEN 0 ELSE 1]]

MarkerSlots ==
    {<<A, "build.gradle">>, <<A, "package.json">>, <<A, "requirements.txt">>,
     <<A, "pyproject.toml">>, <<ABB, "build.gradle">>, <<ABB, "requirements.txt">>,
     <<AN, "package.json">>}

\* do_clean_all is called with its arguments given directly
CalledDirectly ==
    /\ config = DefaultConfig
    /\ cli_path = {}
    /\ cli_exclude_types = <<>>
    /\ cli_exclude_dirs = <<>>
    /\ stage = "launched"
    /\ merged = NoMerged
    /\ cwd = <<n_w>>
    /\ user_file = {}
    /\ set_result = {}

\* main.rs:190-191: the limits of a run, (max depth, max files): a tight pair
\* set in the configuration, or the defaults
ScanLimits == {<<1, 1>>, <<MAX_DIRECTORY_DEPTH, MAX_FILES_PER_PROJECT>>}

\* the environment is varied only where a run can observe it: the external
\* command when a gradle project is there, the closed directory when a Node.js
\* project owns it; a closed root hides everything below it
Init ==
    /\ fs = InitFs
    /\ markers \in {m \in SUBSET MarkerSlots : Cardinality(m) <= MaxTasks}
    /\ locked \in {{}, {AN}, {Root}}
    /\ locked = {AN} => <<A, "package.json">> \in markers
    /\ locked = {Root} => (ext = "cleans" /\ exclude_dirs = {} /\ max_concurrent = 1)
    /\ ext \in {"cleans", "grows", "nospawn"}
    /\ ext # "cleans" => \E m \in markers : m[2] = "build.gradle"
    /\ exclude_dirs \in {{}, {"b"}, {"build"}}
    /\ max_concurrent \in 1 .. MaxConcurrent
    /\ \E limits \in ScanLimits : max_depth = limits[1] /\ max_files = limits[2]
    /\ run = "first"
    /\ phase = "start"
    /\ cleaning_tasks = <<>>
    /\ pc = <<>>
    /\ idx = <<>>
    /\ attempted = <<>>
    /\ runs = <<>>
    /\ permits = 0
    /\ sizes_before = <<>>
    /\ cleaned_size = <<>>
    /\ results = <<>>
    /\ total_cleaned = 0
    /\ total_freed = 0
    /\ fs_plan = InitFs
    /\ CalledDirectly

env == <<markers, locked, ext, exclude_dirs, max_concurrent, max_depth, max_files,
         config, cli_path, cli_exclude_types, cli_exclude_dirs, stage, merged,
         cwd, user_file, set_result>>

\* lib.rs:72-110: the scan finds no project and do_clean_all returns 0
ScanNone ==
    /\ phase = "start"
    /\ Plan(fs, exclude_dirs) = <<>>
    /\ phase' = "done"
    /\ total_cleaned' = 0
    /\ total_freed' = 0
    /\ fs_plan' = fs
    /\ UNCHANGED <<fs, env, run, cleaning_tasks, pc, idx, attempted, runs, permits,
                   sizes_before, cleaned_size, results>>

\* lib.rs:72-139: the scan plans the tasks, the semaphore is built and the
\* size futures are created
ScanPlan ==
    /\ phase = "start"
    /\ Plan(fs, exclude_dirs) # <<>>
    /\ cleaning_tasks' = Plan(fs, exclude_dirs)
    /\ phase' = "presize"
    /\ permits' = max_concurrent
    /\ LET n == Len(Plan(fs, exclude_dirs)) IN
         /\ pc' = [t \in 1 .. n |-> "wait"]
         /\ idx' = [t \in 1 .. n |-> 0]
         /\ attempted' = [t \in 1 .. n |-> {}]
         /\ runs' = [t \in 1 .. n |-> 0]
         /\ sizes_before' = [t \in 1 .. n |-> 0]
         /\ cleaned_size' = [t \in 1 .. n |-> 0]
         /\ results' = [t \in 1 .. n |-> <<>>]
    /\ fs_plan' = fs
    /\ UNCHANGED <<fs, env, run, total_cleaned, total_freed>>

\* lib.rs:135: a size future gets its permit
PreAcquire(t) ==
    /\ phase = "presize"
    /\ pc[t] = "wait"
    /\ InTurn(t, "wait")
    /\ PermitAvailable(permits)
    /\ permits' = permits - 1
    /\ pc' = [pc EXCEPT ![t] = "sizing"]
    /\ UNCHANGED <<fs, env, run, phase, cleaning_tasks, idx, attempted, runs,
                   sizes_before, cleaned_size, results, total_cleaned, total_freed,
                   fs_plan>>

\* lib.rs:136-137: the size is measured and the permit dropped
PreDone(t) ==
    /\ phase = "presize"
    /\ pc[t] = "sizing"
    /\ sizes_before' = [sizes_before EXCEPT
                          ![JoinSlot(t, pc)] = get_dir_size_async(fs, path_of(t))]
    /\ permits' = Release(permits)
    /\ pc' = [pc EXCEPT ![t] = "sized"]
    /\ UNCHANGED <<fs, env, run, phase, cleaning_tasks, idx, attempted, runs,
                   cleaned_size, results, total_cleaned, total_freed, fs_plan>>

\* lib.rs:141-200: join_all of the size futures returns; the cleaning futures
\* are created
StartClean ==
    /\ phase = "presize"
    /\ PreSizeJoined(pc)
    /\ phase' = "clean"
    /\ pc' = [t \in Tasks |-> "queued"]
    /\ UNCHANGED <<fs, env, run, cleaning_tasks, idx, attempted, runs, permits,
                   sizes_before, cleaned_size, results, total_cleaned, total_freed,
                   fs_plan>>

\* lib.rs:160-165, cmd.rs:86-104: a cleaning future gets its permit and an
\* external clean command cannot be spawned: the Err branch, the permit dropped
CleanSpawnFail(t) ==
    /\ phase = "clean"
    /\ pc[t] = "queued"
    /\ InTurn(t, "queued")
    /\ PermitAvailable(permits)
    /\ IsExternal(cmd_of(t))
    /\ SpawnFails(fs, path_of(t))
    /\ runs' = [runs EXCEPT ![t] = @ + 1]
    /\ results' = [results EXCEPT ![t] = ErrOutcome(sizes_before[t])]
    /\ permits' = Release(permits - 1)
    /\ pc' = [pc EXCEPT ![t] = "done"]
    /\ UNCHANGED <<fs, env, run, phase, cleaning_tasks, idx, attempted, sizes_before,
                   cleaned_size, total_cleaned, total_freed, fs_plan>>

\* lib.rs:160-165, cmd.rs:86-99: the external clean command is spawned
CleanSpawn(t) ==
    /\ phase = "clean"
    /\ pc[t] = "queued"
    /\ InTurn(t, "queued")
    /\ PermitAvailable(permits)
    /\ IsExternal(cmd_of(t))
    /\ ~SpawnFails(fs, path_of(t))
    /\ runs' = [runs EXCEPT ![t] = @ + 1]
    /\ permits' = permits - 1
    /\ pc' = [pc EXCEPT ![t] = "spawned"]
    /\ UNCHANGED <<fs, env, run, phase, cleaning_tasks, idx, attempted, sizes_before,
                   cleaned_size, results, total_cleaned, total_freed, fs_plan>>

\* the exit codes a clean command can end with
ExitCodes == {0, 1}

\* a run_clean that turns a non-zero exit status into an Err
ChecksExit(code) == code = 0

\* cmd.rs:99: .map(|_| ()) drops the Output, exit status included
IgnoresExit(code) == TRUE

\* cmd.rs:99, lib.rs:165: the external command has run and output() returns
\* its Output
ExternalDone(t) ==
    /\ phase = "clean"
    /\ pc[t] = "spawned"
    /\ fs' = ExternalEffect(fs, path_of(t))
    /\ \E code \in ExitCodes :
         IF IgnoresExit(code)
           THEN /\ pc' = [pc EXCEPT ![t] = "measuring"]
                /\ UNCHANGED <<results, permits>>
           ELSE /\ results' = [results EXCEPT ![t] = ErrOutcome(sizes_before[t])]
                /\ permits' = Release(permits)
                /\ pc' = [pc EXCEPT ![t] = "done"]
    /\ UNCHANGED <<env, run, phase, cleaning_tasks, idx, attempted, runs,
                   sizes_before, cleaned_size, total_cleaned, total_freed,
                   fs_plan>>

\* lib.rs:160-165, cmd.rs:108-167: a cleaning future gets its permit and the
\* delete loop runs up to its first removal (or to its end)
CleanDelete(t) ==
    /\ phase = "clean"
    /\ pc[t] = "queued"
    /\ InTurn(t, "queued")
    /\ PermitAvailable(permits)
    /\ ~IsExternal(cmd_of(t))
    /\ runs' = [runs EXCEPT ![t] = @ + 1]
    /\ permits' = permits - 1
    /\ LET list == KnownPaths(cmd_of(t))
           j    == NextExisting(fs, path_of(t), list, 1)
       IN  /\ idx' = [idx EXCEPT ![t] = j]
           /\ IF j <= Len(list)
                THEN /\ pc' = [pc EXCEPT ![t] = "removing"]
                     /\ attempted' = [attempted EXCEPT ![t] = {j}]
                ELSE /\ pc' = [pc EXCEPT ![t] = "measuring"]
                     /\ attempted' = attempted
    /\ UNCHANGED <<fs, env, run, phase, cleaning_tasks, sizes_before, cleaned_size,
                   results, total_cleaned, total_freed, fs_plan>>

\* cmd.rs:121-133, lib.rs:187-196: remove_dir_all fails, `?` returns the Err,
\* the task gets the tuple of the Err branch and drops its permit
RemoveFail(t) ==
    /\ phase = "clean"
    /\ pc[t] = "removing"
    /\ LET list == KnownPaths(cmd_of(t))
           r    == RemoveDirAll(fs, Append(path_of(t), list[idx[t]]))
       IN  StopsOnErr(r.ok)
    /\ results' = [results EXCEPT ![t] = ErrOutcome(sizes_before[t])]
    /\ permits' = Release(permits)
    /\ pc' = [pc EXCEPT ![t] = "done"]
    /\ UNCHANGED <<fs, env, run, phase, cleaning_tasks, idx, attempted, runs,
                   sizes_before, cleaned_size, total_cleaned, total_freed, fs_plan>>

\* cmd.rs:119-123: remove_dir_all returns and the loop goes on to the next
\* sub-path that exists (or to its end)
RemoveNext(t) ==
    /\ phase = "clean"
    /\ pc[t] = "removing"
    /\ LET list == KnownPaths(cmd_of(t))
           r    == RemoveDirAll(fs, Append(path_of(t), list[idx[t]]))
           j    == NextExisting(r.fs, path_of(t), list, idx[t] + 1)
       IN  /\ ~StopsOnErr(r.ok)
           /\ fs' = r.fs
           /\ idx' = [idx EXCEPT ![t] = j]
           /\ IF j <= Len(list)
                THEN /\ pc' = [pc EXCEPT ![t] = "removing"]
                     /\ attempted' = [attempted EXCEPT ![t] = @ \cup {j}]
                ELSE /\ pc' = [pc EXCEPT ![t] = "measuring"]
                     /\ attempted' = attempted
    /\ UNCHANGED <<env, run, phase, cleaning_tasks, runs, permits, sizes_before,
                   cleaned_size, results, total_cleaned, total_freed, fs_plan>>

\* lib.rs:166-186: the Ok branch: size after, cleaned_size, the tuple, the
\* permit dropped
Measure(t) ==
    /\ phase = "clean"
    /\ pc[t] = "measuring"
    /\ LET size_after == get_dir_size_async(fs, path_of(t)) IN
         /\ cleaned_size' = [cleaned_size EXCEPT
                               ![t] = saturating_sub(sizes_before[t], size_after)]
         /\ results' = [results EXCEPT ![t] = OkOutcome(sizes_before[t], size_after)]
    /\ permits' = Release(permits)
    /\ pc' = [pc EXCEPT ![t] = "done"]
    /\ UNCHANGED <<fs, env, run, phase, cleaning_tasks, idx, attempted, runs,
                   sizes_before, total_cleaned, total_freed, fs_plan>>

RECURSIVE SumField(_, _)
SumField(rs, k) ==
    IF rs = <<>> THEN 0
    ELSE (IF Head(rs) = <<>> THEN 0 ELSE Head(rs)[k]) + SumField(Tail(rs), k)

\* lib.rs:203-219: join_all of the cleaning futures returns and the totals
\* are computed
Finish ==
    /\ phase = "clean"
    /\ CleanJoined(results)
    /\ total_cleaned' = SumField(results, 1)
    /\ total_freed' = saturating_sub(SumSeq(sizes_before), SumField(results, 3))
    /\ phase' = "done"
    /\ UNCHANGED <<fs, env, run, cleaning_tasks, pc, idx, attempted, runs, permits,
                   sizes_before, cleaned_size, results, fs_plan>>

\* the tool is run a second time on the tree the first run left
Rerun ==
    /\ phase = "done"
    /\ run = "first"
    /\ run' = "second"
    /\ phase' = "start"
    /\ cleaning_tasks' = <<>>
    /\ pc' = <<>>
    /\ idx' = <<>>
    /\ attempted' = <<>>
    /\ runs' = <<>>
    /\ permits' = 0
    /\ sizes_before' = <<>>
    /\ cleaned_size' = <<>>
    /\ results' = <<>>
    /\ total_cleaned' = 0
    /\ total_freed' = 0
    /\ UNCHANGED <<fs, env, fs_plan>>

Next ==
    \/ ScanNone
    \/ ScanPlan
    \/ \E t \in Tasks : PreAcquire(t)
    \/ \E t \in Tasks : PreDone(t)
    \/ StartClean
    \/ \E t \in Tasks : CleanSpawnFail(t)
    \/ \E t \in Tasks : CleanSpawn(t)
    \/ \E t \in Tasks : ExternalDone(t)
    \/ \E t \in Tasks : CleanDelete(t)
    \/ \E t \in Tasks : RemoveFail(t)
    \/ \E t \in Tasks : RemoveNext(t)
    \/ \E t \in Tasks : Measure(t)
    \/ Finish

\* one run of do_clean_all
Spec == Init /\ [][Next]_vars

\* two runs in succession
NextTwice == Next \/ Rerun

TwiceSpec == Init /\ [][NextTwice]_vars

\* ---------------------------------------------------------------- the size pass
\* numbers of files in a directory around the ceiling of the size walk
FileCounts ==
    {0, 1, MAX_FILES_PER_PROJECT - 1, MAX_FILES_PER_PROJECT, MAX_FILES_PER_PROJECT + 1}

\* a project and a project nested in it, each with many files of its own
SizeInit ==
    /\ \E a, b \in FileCounts :
         fs = [ex |-> [d \in Universe |-> TRUE],
               fl |-> [d \in Universe |->
                         IF d = A THEN a ELSE IF d = ABB THEN b ELSE 0]]
    /\ fs_plan = fs
    /\ markers = {<<A, "build.gradle">>, <<ABB, "build.gradle">>}
    /\ locked = {}
    /\ ext = "cleans"
    /\ exclude_dirs = {}
    /\ max_concurrent \in 1 .. MaxConcurrent
    /\ max_depth = MAX_DIRECTORY_DEPTH
    /\ max_files = MAX_FILES_PER_PROJECT
    /\ run = "first"
    /\ phase = "start"
    /\ cleaning_tasks = <<>>
    /\ pc = <<>>
    /\ idx = <<>>
    /\ attempted = <<>>
    /\ runs = <<>>
    /\ permits = 0
    /\ sizes_before = <<>>
    /\ cleaned_size = <<>>
    /\ results = <<>>
    /\ total_cleaned = 0
    /\ total_freed = 0
    /\ CalledDirectly

\* lib.rs:72-141: the scan and the pre-size pass of a run
SizeNext ==
    \/ ScanPlan
    \/ \E t \in Tasks : PreAcquire(t)
    \/ \E t \in Tasks : PreDone(t)
    \/ StartClean

SizeSpec == SizeInit /\ [][SizeNext]_vars

\* ---------------------------------------------------------------- main
\* what the command line and the configuration file can hold
PathInputs ==
    {<<".">>,
     <<"p", "r", "o", "j">>,
     <<"p", "r", "o", "j", "/", "f">>,
     <<"n", "o", "p", "e">>,
     <<".", ".", "/", "w">>,
     <<".", ".", "\\", "w">>,
     <<"/", "e", "t", "c">>,
     <<"/", "w", "/", "p", "r", "o", "j">>,
     <<"/", "d", "a", "t", "a">>,
     <<"l", "i", "n", "k">>,
     <<>>}

OptPaths == {{}} \cup {{path_str} : path_str \in PathInputs}

LimitInputs(ceiling) == {{}, {0}, {1}, {ceiling}, {ceiling + 1}}

\* the spelling of the names of the tree's directories
Spell(name) ==
    CASE name = "a" -> <<"a">>
      [] name = "b" -> <<"b">>
      [] name = "build" -> <<"b", "u", "i", "l", "d">>
      [] name = "pkg" -> <<"p", "k", "g">>
      [] name = ".venv" -> <<".", "v", "e", "n", "v">>
      [] name = "node_modules" -> <<"n", "o", "d", "e", "_", "m", "o", "d", "u", "l", "e", "s">>

TreeNames == {"a", "b", "build", "pkg", ".venv", "node_modules"}

\* get_cpu_core_count: the logical cores of the machine, 4 when unknown
CpuCores == {1, 4}

\* the inputs are varied one group at a time: the limits, the paths, or the
\* exclusion lists
ConfigInputs ==
    \/ /\ \E mc \in LimitInputs(64), md \in LimitInputs(1000), mf \in LimitInputs(100000) :
            config = [DefaultConfig EXCEPT !.max_concurrent = mc, !.max_depth = md,
                                           !.max_files = mf]
       /\ cli_path = {}
       /\ cli_exclude_types = <<>>
       /\ cli_exclude_dirs = <<>>
    \/ /\ \E dp \in OptPaths : config = [DefaultConfig EXCEPT !.default_path = dp]
       /\ cli_path \in OptPaths
       /\ cli_exclude_types = <<>>
       /\ cli_exclude_dirs = <<>>
    \/ /\ \E ed \in {{}, {<<Spell("b")>>}, {<<Spell("build"), Spell("b")>>}, {<<<<".", ".">>>>}},
             et \in {{}, {<<"cargo", "go">>}, {<<"rust">>}} :
            config = [DefaultConfig EXCEPT !.exclude_dirs = ed, !.exclude_types = et]
       /\ cli_path = {}
       /\ cli_exclude_types \in {<<>>, <<"python">>}
       /\ cli_exclude_dirs \in {<<>>, <<Spell("build")>>, <<<<"a", "/", "b">>>>}

\* main has loaded the configuration; do_clean_all is not called yet
ConfigInit ==
    /\ ConfigInputs
    /\ stage = "loaded"
    /\ merged = NoMerged
    /\ cwd \in WorkingDirs
    /\ user_file = {}
    /\ set_result = {}
    /\ fs = InitFs
    /\ fs_plan = InitFs
    /\ markers = {<<A, "build.gradle">>, <<ABB, "build.gradle">>}
    /\ locked = {}
    /\ ext = "cleans"
    /\ exclude_dirs = {}
    /\ max_concurrent = 1
    /\ max_depth = MAX_DIRECTORY_DEPTH
    /\ max_files = MAX_FILES_PER_PROJECT
    /\ run = "first"
    /\ phase = "idle"
    /\ cleaning_tasks = <<>>
    /\ pc = <<>>
    /\ idx = <<>>
    /\ attempted = <<>>
    /\ runs = <<>>
    /\ permits = 0
    /\ sizes_before = <<>>
    /\ cleaned_size = <<>>
    /\ results = <<>>
    /\ total_cleaned = 0
    /\ total_freed = 0

\* main.rs:145-148: the configuration is validated; an Err ends the process
Validate ==
    /\ stage = "loaded"
    /\ stage' = IF validate(config) THEN "valid" ELSE "invalid"
    /\ UNCHANGED <<fs, markers, locked, ext, exclude_dirs, max_concurrent, max_depth,
                   max_files, run, phase, cleaning_tasks, pc, idx, attempted, runs,
                   permits, sizes_before, cleaned_size, results, total_cleaned,
                   total_freed, fs_plan, config, cli_path, cli_exclude_types,
                   cli_exclude_dirs, merged, cwd, user_file, set_result>>

\* main.rs:151: the configuration is merged with the command line
Merge ==
    /\ stage = "valid"
    /\ merged' = merge_with_cli(config, cli_path, cli_exclude_types, cli_exclude_dirs)
    /\ stage' = IF merged'.ok THEN "merged" ELSE "rejected"
    /\ UNCHANGED <<fs, markers, locked, ext, exclude_dirs, max_concurrent, max_depth,
                   max_files, run, phase, cleaning_tasks, pc, idx, attempted, runs,
                   permits, sizes_before, cleaned_size, results, total_cleaned,
                   total_freed, fs_plan, config, cli_path, cli_exclude_types,
                   cli_exclude_dirs, cwd, user_file, set_result>>

\* Path::is_dir
is_dir(s) ==
    /\ s # <<>>
    /\ LET r == resolve(IF is_absolute(s) THEN <<>> ELSE current_dir, components(s, 1, <<>>))
       IN  r.ok /\ r.node \in DiskDirs

\* WalkDir over a root that is not a directory yields no directory
NoTree ==
    [ex |-> [d \in Universe |-> FALSE], fl |-> [d \in Universe |-> 0]]

\* main.rs:183-198, lib.rs:126: do_clean_all is called with the merged
\* configuration: its root, its exclusion names, its limits
Launch ==
    /\ stage = "merged"
    /\ stage' = "launched"
    /\ phase' = "start"
    /\ \E cores \in CpuCores : max_concurrent' = unwrap_or(merged.max_concurrent, cores)
    /\ max_depth' = unwrap_or(merged.max_depth, MAX_DIRECTORY_DEPTH)
    /\ max_files' = unwrap_or(merged.max_files, MAX_FILES_PER_PROJECT)
    /\ exclude_dirs' = {name \in TreeNames :
                          \E i \in 1 .. Len(merged.exclude_dirs) :
                              merged.exclude_dirs[i] = Spell(name)}
    /\ fs' = IF is_dir(merged.path) THEN fs ELSE NoTree
    /\ UNCHANGED <<markers, locked, ext, run, cleaning_tasks, pc, idx, attempted, runs,
                   permits, sizes_before, cleaned_size, results, total_cleaned,
                   total_freed, fs_plan, config, cli_path, cli_exclude_types,
                   cli_exclude_dirs, merged, cwd, user_file, set_result>>

\* main, up to the scan of the run it starts
ConfigNext ==
    \/ Validate
    \/ Merge
    \/ Launch
    \/ ScanNone
    \/ ScanPlan

ConfigSpec == ConfigInit /\ [][ConfigNext]_vars

\* ---------------------------------------------------------------- the validators
\* utils.rs:10-133 (the same code as config.rs:376-499): the two validators
\* called on their own, as their tests call them.  cli_path holds the path
\* argument, cli_exclude_dirs the one name argument, merged the result.

\* path arguments: existing and missing, relative and absolute, inside and
\* outside the working directory, with traversal, with system directories in
\* several spellings
PathCases ==
    PathInputs \cup
    {<<".", ".", "/", "n", "o", "p", "e">>,
     <<"~", "/", "x">>,
     <<"p", "r", "o", "j", "/", ".", ".">>,
     <<"/", "w">>,
     <<"/", "E", "T", "C">>,
     <<"/", "E", "t", "c", "/", "p", "a", "s", "s", "w", "d">>,
     <<"/", "e", "t", "c", "/">>,
     <<"/", "e", "t", "c", "e", "t", "e", "r", "a">>,
     <<"/", "u", "s", "r">>,
     <<"/", "/", "e", "t", "c">>,
     <<"/", "h", "o", "m", "e">>,
     <<"/", "h", "o", "m", "e", "/", "w">>,
     <<"/", "h", "o", "m", "e", "/", "w", "/", "p", "r", "o", "j">>,
     <<"/", "/", "h", "o", "m", "e", "/", "w", "/", "p", "r", "o", "j">>,
     <<"/", ".", "/", "h", "o", "m", "e", "/", "w">>,
     <<"/", "h", "o", "m", "e", "\\", "w">>}

\* a name of n characters
LongName(n) == [i \in 1 .. n |-> "x"]

\* name arguments around every test of validate_exclude_dir_name
NameCases ==
    {<<>>,
     <<".">>,
     <<".", ".">>,
     <<"a", ".", ".", "b">>,
     <<"a", "/", "b">>,
     <<"a", "\\", "b">>,
     <<"c", "o", "n">>,
     <<"C", "O", "N">>,
     <<"C", "o", "m", "1">>,
     <<"c", "o", "m", "0">>,
     <<"L", "P", "T", "9">>,
     <<"n", "u", "l">>,
     <<"a", "u", "x">>,
     <<"p", "r", "n">>,
     <<"c", "o", "n", "s", "o", "l", "e">>,
     <<"c", "o", "n", ".", "t", "x", "t">>,
     <<".", "v", "e", "n", "v">>,
     <<"a", ".", "b">>,
     <<"t", "a", "r", "g", "e", "t">>,
     <<"b", "u", "i", "l", "d">>,
     LongName(1),
     LongName(254),
     LongName(255),
     LongName(256),
     LongName(257)}

UtilsInit ==
    /\ \/ /\ cli_path \in {{path_str} : path_str \in PathCases}
          /\ cli_exclude_dirs = <<>>
          /\ cwd \in WorkingDirs
       \/ /\ cli_path = {}
          /\ cli_exclude_dirs \in {<<dir_name>> : dir_name \in NameCases}
          /\ cwd = <<n_w>>
    /\ config = DefaultConfig
    /\ cli_exclude_types = <<>>
    /\ stage = "loaded"
    /\ merged = NoMerged
    /\ user_file = {}
    /\ set_result = {}
    /\ fs = InitFs
    /\ fs_plan = InitFs
    /\ markers = {}
    /\ locked = {}
    /\ ext = "cleans"
    /\ exclude_dirs = {}
    /\ max_concurrent = 1
    /\ max_depth = MAX_DIRECTORY_DEPTH
    /\ max_files = MAX_FILES_PER_PROJECT
    /\ run = "first"
    /\ phase = "idle"
    /\ cleaning_tasks = <<>>
    /\ pc = <<>>
    /\ idx = <<>>
    /\ attempted = <<>>
    /\ runs = <<>>
    /\ permits = 0
    /\ sizes_before = <<>>
    /\ cleaned_size = <<>>
    /\ results = <<>>
    /\ total_cleaned = 0
    /\ total_freed = 0

\* utils.rs:10: validate_and_sanitize_path(path_str)
SanitizePath ==
    /\ stage = "loaded"
    /\ cli_path # {}
    /\ merged' = validate_and_sanitize_path(the(cli_path))
    /\ stage' = "path_checked"
    /\ UNCHANGED <<fs, markers, locked, ext, exclude_dirs, max_concurrent, max_depth,
                   max_files, run, phase, cleaning_tasks, pc, idx, attempted, runs,
                   permits, sizes_before, cleaned_size, results, total_cleaned,
                   total_freed, fs_plan, config, cli_path, cli_exclude_types,
                   cli_exclude_dirs, cwd, user_file, set_result>>

\* utils.rs:90: validate_exclude_dir_name(dir_name)
CheckName ==
    /\ stage = "loaded"
    /\ cli_exclude_dirs # <<>>
    /\ merged' = [ok |-> validate_exclude_dir_name(cli_exclude_dirs[1])]
    /\ stage' = "name_checked"
    /\ UNCHANGED <<fs, markers, locked, ext, exclude_dirs, max_concurrent, max_depth,
                   max_files, run, phase, cleaning_tasks, pc, idx, attempted, runs,
                   permits, sizes_before, cleaned_size, results, total_cleaned,
                   total_freed, fs_plan, config, cli_path, cli_exclude_types,
                   cli_exclude_dirs, cwd, user_file, set_result>>

UtilsNext ==
    \/ SanitizePath
    \/ CheckName

UtilsSpec == UtilsInit /\ [][UtilsNext]_vars

\* ---------------------------------------------------------------- the user's configuration file
\* The content of the TOML file is the table it holds: for every key of
\* Config an Option, the keys that Config does not have (other), and whether
\* the text is TOML at all (well_formed).
ConfigKeys ==
    {"default_path", "exclude_types", "exclude_dirs", "max_concurrent", "max_depth",
     "max_files", "verbose"}

Digits == <<"0", "1", "2", "3", "4", "5", "6", "7", "8", "9">>

is_digit(c) == \E d \in 1 .. Len(Digits) : Digits[d] = c

digit(c) == (CHOOSE d \in 1 .. Len(Digits) : Digits[d] = c) - 1

RECURSIVE number(_)
number(s) ==
    IF s = <<>> THEN 0
    ELSE number(SubSeq(s, 1, Len(s) - 1)) * Len(Digits) + digit(s[Len(s)])

\* str::parse::<usize>: decimal digits after an optional '+'; {} for an Err
parse_usize(value) ==
    LET body == IF value # <<>> /\ value[1] = "+" THEN Tail(value) ELSE value
    IN  IF body # <<>> /\ \A i \in 1 .. Len(body) : is_digit(body[i])
          THEN {number(body)}
          ELSE {}

\* str::parse::<bool>: "true" or "false"; {} for an Err
parse_bool(value) ==
    IF value = <<"t", "r", "u", "e">> THEN {TRUE}
    ELSE IF value = <<"f", "a", "l", "s", "e">> THEN {FALSE}
    ELSE {}

\* str::split(','): the pieces between the commas, the empty ones kept
RECURSIVE split(_, _, _)
split(s, i, piece) ==
    IF i > Len(s) THEN <<piece>>
    ELSE IF s[i] = ","
      THEN <<piece>> \o split(s, i + 1, <<>>)
      ELSE split(s, i + 1, Append(piece, s[i]))

\* str::trim
RECURSIVE trim(_)
trim(s) ==
    IF s = <<>> THEN s
    ELSE IF s[1] = " " THEN trim(Tail(s))
    ELSE IF s[Len(s)] = " " THEN trim(SubSeq(s, 1, Len(s) - 1))
    ELSE s

\* config.rs:315, 319: value.split(',').map(|s| s.trim().to_string()).collect()
split_trimmed(value) ==
    LET pieces == split(value, 1, <<>>)
    IN  [i \in 1 .. Len(pieces) |-> trim(pieces[i])]

\* config.rs:58-84: from_file on an existing rs_clean.toml: the keys of Config
\* are read, other keys are ignored, a text that is not TOML is an Err
from_file(content) ==
    IF ~content.well_formed THEN [ok |-> FALSE]
    ELSE [ok |-> TRUE, config |-> [k \in ConfigKeys |-> content[k]]]

\* config.rs:352: toml::to_string_pretty(&config): the table of the keys of
\* Config that are set
to_string_pretty(c) ==
    [k \in ConfigKeys \cup {"other", "well_formed"} |->
        IF k = "other" THEN {}
        ELSE IF k = "well_formed" THEN TRUE
        ELSE c[k]]

\* config.rs:312-349: the match on the key: Ok with the changed Config, or an
\* Err for an unknown key or a value that does not parse
set_key(c, key, value) ==
    IF key = "default_path" THEN [ok |-> TRUE, config |-> [c EXCEPT !.default_path = {value}]]
    ELSE IF key = "exclude_types"
      THEN [ok |-> TRUE, config |-> [c EXCEPT !.exclude_types = {split_trimmed(value)}]]
    ELSE IF key = "exclude_dirs"
      THEN [ok |-> TRUE, config |-> [c EXCEPT !.exclude_dirs = {split_trimmed(value)}]]
    ELSE IF key \in {"max_concurrent", "max_depth", "max_files"}
      THEN IF parse_usize(value) = {} THEN [ok |-> FALSE]
           ELSE [ok |-> TRUE, config |-> [c EXCEPT ![key] = parse_usize(value)]]
    ELSE IF key = "verbose"
      THEN IF parse_bool(value) = {} THEN [ok |-> FALSE]
           ELSE [ok |-> TRUE, config |-> [c EXCEPT !.verbose = parse_bool(value)]]
    ELSE [ok |-> FALSE]

\* config.rs:301-363: set_user_config_value: the result and the file it
\* leaves; writable tells whether fs::write succeeds
set_user_config_value(file, key, value, writable) ==
    LET loaded == IF file # {} THEN from_file(the(file))
                  ELSE [ok |-> TRUE, config |-> DefaultConfig]
    IN  IF ~loaded.ok THEN [ok |-> FALSE, file |-> file]
        ELSE LET changed == set_key(loaded.config, key, value) IN
               IF ~changed.ok THEN [ok |-> FALSE, file |-> file]
               ELSE IF ~writable THEN [ok |-> FALSE, file |-> file]
               ELSE [ok |-> TRUE, file |-> {to_string_pretty(changed.config)}]

\* a table with nothing set
EmptyFile ==
    [k \in ConfigKeys \cup {"other", "well_formed"} |->
        IF k = "other" THEN {} ELSE IF k = "well_formed" THEN TRUE ELSE {}]

\* a table with several keys set
SetFile ==
    [EmptyFile EXCEPT !.default_path = {<<"p", "r", "o", "j">>},
                      !.exclude_dirs = {<<<<"b">>, <<"c">>>>},
                      !.max_concurrent = {4},
                      !.verbose = {TRUE}]

\* the files a user can have: none, one that is not TOML, and tables with and
\* without a key that Config does not have
FileInputs ==
    {{},
     {[EmptyFile EXCEPT !.well_formed = FALSE]},
     {EmptyFile},
     {SetFile},
     {[SetFile EXCEPT !.other = {"max_file"}]}}

\* main.rs:15-29, 74-75: the key and the value of `config set`
KeyInputs == ConfigKeys \cup {"max_file"}

ValueInputs ==
    {<<"4">>,
     <<"+", "1", "2">>,
     <<"t", "r", "u", "e">>,
     <<" ", "b", ",", " ", "c">>,
     <<>>}

SetInit ==
    /\ user_file \in FileInputs
    /\ set_result = {}
    /\ config = DefaultConfig
    /\ cli_path = {}
    /\ cli_exclude_types = <<>>
    /\ cli_exclude_dirs = <<>>
    /\ cwd = <<n_w>>
    /\ stage = "loaded"
    /\ merged = NoMerged
    /\ fs = InitFs
    /\ fs_plan = InitFs
    /\ markers = {}
    /\ locked = {}
    /\ ext = "cleans"
    /\ exclude_dirs = {}
    /\ max_concurrent = 1
    /\ max_depth = MAX_DIRECTORY_DEPTH
    /\ max_files = MAX_FILES_PER_PROJECT
    /\ run = "first"
    /\ phase = "idle"
    /\ cleaning_tasks = <<>>
    /\ pc = <<>>
    /\ idx = <<>>
    /\ attempted = <<>>
    /\ runs = <<>>
    /\ permits = 0
    /\ sizes_before = <<>>
    /\ cleaned_size = <<>>
    /\ results = <<>>
    /\ total_cleaned = 0
    /\ total_freed = 0

\* main.rs:74-75: `config set KEY VALUE`
SetValue ==
    /\ set_result = {}
    /\ \E key \in KeyInputs, value \in ValueInputs, writable \in BOOLEAN :
         LET r == set_user_config_value(user_file, key, value, writable) IN
           /\ user_file' = r.file
           /\ set_result' = {[key |-> key, value |-> value, ok |-> r.ok]}
    /\ UNCHANGED <<fs, markers, locked, ext, exclude_dirs, max_concurrent, max_depth,
                   max_files, run, phase, cleaning_tasks, pc, idx, attempted, runs,
                   permits, sizes_before, cleaned_size, results, total_cleaned,
                   total_freed, fs_plan, config, cli_path, cli_exclude_types,
                   cli_exclude_dirs, stage, merged, cwd>>

SetNext == SetValue

SetSpec == SetInit /\ [][SetNext]_vars

\* ---------------------------------------------------------------- claims
HoldsPermit(t) == pc[t] \in {"sizing", "spawned", "removing", "measuring"}

Held == Cardinality({t \in Tasks : HoldsPermit(t)})

Failed(t) == results[t] # <<>> /\ results[t][1] = 0

Succeeded(t) == results[t] # <<>> /\ results[t][1] = 1

\* C1: no cleanup task is planned for a directory that has an excluded name
\* (built-in, caller-supplied or starting with '.') on its path: neither for
\* the excluded directory nor for a directory below it.
C1_NoTaskUnderExcluded ==
    \A t \in Tasks : \A k \in 1 .. Len(path_of(t)) :
        ~Excluded(path_of(t)[k], exclude_dirs)

\* C2: at most N tasks hold a permit of the semaphore at once, in the
\* pre-size pass and in the cleanup pass, and the semaphore never goes below 0.
C2_AtMostNPermits ==
    /\ Held <= max_concurrent
    /\ permits >= 0
    /\ phase \in {"presize", "clean"} => permits + Held = max_concurrent

\* C2 witness: the cleanup pass with every permit taken and a task waiting.
C2_Witness ==
    /\ phase = "clean"
    /\ Held = max_concurrent
    /\ \E t \in Tasks : pc[t] = "queued"
    /\ \E t \in Tasks : pc[t] = "measuring"

\* C3: a cleanup action has started only if every planned task has its
\* size-before, and every size-before is the size of the tree as it was
\* planned, not of a tree a cleanup of this run has changed.
C3_PreSizeBeforeClean ==
    \A t \in Tasks :
        /\ runs[t] > 0 => \A u \in Tasks : pc[u] \notin {"wait", "sizing"}
        /\ pc[t] \notin {"wait", "sizing"}
             => sizes_before[t] = get_dir_size_async(fs_plan, path_of(t))

\* C3 witness: two tasks, a cleanup has changed the tree, a task is still
\* waiting for its cleanup.
C3_Witness ==
    /\ Len(cleaning_tasks) >= 2
    /\ fs # fs_plan
    /\ \E t \in Tasks : runs[t] = 0 /\ sizes_before[t] > 0

\* C4: the Err of one task is that task's outcome only: the step that fails a
\* task leaves the pass running and every other task where it was, and
\* do_clean_all returns only when every planned task has been executed once
\* and has its own outcome; a task is Failed only by the Err of its own action.
C4_FailureIsolated ==
    /\ [][\A t \in Tasks :
            (t \in DOMAIN results' /\ ~Failed(t) /\ results'[t] # <<>> /\ results'[t][1] = 0)
              => /\ phase' = phase
                 /\ \A u \in Tasks \ {t} : pc'[u] = pc[u] /\ results'[u] = results[u]]_vars
    /\ [](phase = "done" => \A u \in Tasks : results[u] # <<>> /\ runs[u] = 1)
    /\ [](\A t \in Tasks :
            Failed(t) => IF IsExternal(cmd_of(t))
                           THEN SpawnFails(fs, path_of(t))
                           ELSE idx[t] \in attempted[t])

\* C4 witness: the run has ended, one task Failed and another Succeeded.
C4_Witness ==
    /\ phase = "done"
    /\ \E t \in Tasks : Failed(t)
    /\ \E u \in Tasks : Succeeded(u)

\* what is left to do: the passes still to come, and for every task the steps
\* its future still has to take
StepsLeft(t) ==
    CASE pc[t] = "wait"      -> 2
      [] pc[t] = "sizing"    -> 1
      [] pc[t] = "sized"     -> 0
      [] pc[t] = "queued"    -> Len(KnownPaths(cmd_of(t))) + 4
      [] pc[t] = "spawned"   -> 2
      [] pc[t] = "removing"  -> Len(KnownPaths(cmd_of(t))) + 2 - idx[t]
      [] pc[t] = "measuring" -> 1
      [] pc[t] = "done"      -> 0

RECURSIVE StepsLeftUpTo(_)
StepsLeftUpTo(n) == IF n = 0 THEN 0 ELSE StepsLeft(n) + StepsLeftUpTo(n - 1)

Rank ==
    (CASE phase = "start" -> 300 [] phase = "presize" -> 200
       [] phase = "clean" -> 100 [] phase = "done" -> 0)
    + StepsLeftUpTo(Len(cleaning_tasks))

\* some future can be polled or a join can return: an action of Next is enabled
CanStep ==
    \/ phase = "start"
    \/ /\ phase = "presize"
       /\ \/ \E t \in Tasks : pc[t] = "sizing"
          \/ \E t \in Tasks : pc[t] = "wait" /\ InTurn(t, "wait") /\ PermitAvailable(permits)
          \/ PreSizeJoined(pc)
    \/ /\ phase = "clean"
       /\ \/ \E t \in Tasks : pc[t] \in {"spawned", "removing", "measuring"}
          \/ \E t \in Tasks : pc[t] = "queued" /\ InTurn(t, "queued") /\ PermitAvailable(permits)
          \/ CleanJoined(results)

\* C5: the run never deadlocks and terminates: until it has ended some step
\* can be taken, and every step brings the end closer; no task runs its
\* cleanup action twice, and at the end every planned task has run it once,
\* has exactly one outcome, and every permit is back in the semaphore.
C5_TerminatesOncePerTask ==
    /\ [](phase = "done" \/ CanStep)
    /\ [][Rank' < Rank]_vars
    /\ [](\A t \in Tasks : runs[t] <= 1)
    /\ [](phase = "done"
            => /\ \A t \in Tasks : runs[t] = 1 /\ results[t] # <<>> /\ pc[t] = "done"
               /\ (Tasks # {} => permits = max_concurrent))

\* C5 witness: a run with more tasks than permits has ended.
C5_Witness ==
    /\ phase = "done"
    /\ Len(cleaning_tasks) > max_concurrent
    /\ \A t \in Tasks : results[t] # <<>>

\* C6: the bytes freed attributed to a task whose cleanup action returned Ok
\* are max(0, sizeBefore - sizeAfter): 0 when the directory grew, never
\* negative, never a wrapped-around value.
C6_FreedClamped ==
    \A t \in Tasks :
        Succeeded(t) =>
            LET before == results[t][2]
                after  == results[t][3]
            IN  /\ before = sizes_before[t]
                /\ cleaned_size[t] = (IF before > after THEN before - after ELSE 0)
                /\ cleaned_size[t] >= 0
                /\ cleaned_size[t] <= before

\* C6 witness: a task whose directory is larger after its cleanup than before.
C6_Witness ==
    \E t \in Tasks :
        Succeeded(t) /\ results[t][3] > results[t][2] /\ cleaned_size[t] = 0

\* C7: the second of two runs in succession frees 0 bytes in total.
C7_SecondRunFreesNothing ==
    (run = "second" /\ phase = "done") => total_freed = 0

\* the delete loop of one task run on its own, from sub-path i on
RECURSIVE AloneDelete(_, _, _, _)
AloneDelete(f, dir, list, i) ==
    LET j == NextExisting(f, dir, list, i) IN
      IF j > Len(list) THEN [fs |-> f, ok |-> TRUE]
      ELSE LET r == RemoveDirAll(f, Append(dir, list[j])) IN
             IF StopsOnErr(r.ok) THEN [fs |-> f, ok |-> FALSE]
             ELSE AloneDelete(r.fs, dir, list, j + 1)

\* the cleanup action of one task run on its own
Alone(f, task) ==
    IF IsExternal(task.cmd)
      THEN IF SpawnFails(f, task.path) THEN [fs |-> f, ok |-> FALSE]
           ELSE [fs |-> ExternalEffect(f, task.path), ok |-> TRUE]
      ELSE AloneDelete(f, task.path, KnownPaths(task.cmd), 1)

\* the outcomes of the tasks run one after the other in plan order
RECURSIVE InPlanOrder(_, _)
InPlanOrder(f, ts) ==
    IF ts = <<>> THEN <<>>
    ELSE LET r == Alone(f, Head(ts)) IN <<r.ok>> \o InPlanOrder(r.fs, Tail(ts))

\* C8: the outcome of every task and the returned count do not depend on the
\* interleaving: they are the ones of the tasks run one after the other.
C8_OrderIndependent ==
    (phase = "done" /\ Tasks # {}) =>
        LET seq == InPlanOrder(fs_plan, cleaning_tasks) IN
          /\ \A t \in Tasks : Succeeded(t) = seq[t]
          /\ total_cleaned = Cardinality({t \in Tasks : seq[t]})

\* C9: no task is planned for a directory deeper below the root than the
\* configured max depth.
C9_NoTaskBeyondMaxDepth ==
    \A t \in Tasks : Len(path_of(t)) <= max_depth

DeleteDone(t) == pc[t] = "done" /\ ~IsExternal(cmd_of(t))

\* C10 as stated: after a removal has failed, every remaining sub-path of the
\* list that exists has still been handed to remove_dir_all.
C10_RemainingStillAttempted ==
    \A t \in Tasks :
        (DeleteDone(t) /\ Failed(t)) =>
            \A k \in (idx[t] + 1) .. Len(KnownPaths(cmd_of(t))) :
                PathExists(fs, Append(path_of(t), KnownPaths(cmd_of(t))[k]))
                  => k \in attempted[t]

\* C10 amended: a sub-path the existence test finds absent is skipped without
\* error, so a task whose removals all succeed walks the whole list and ends
\* Succeeded with every sub-path it removed gone; the first removal that fails
\* ends the task Failed at once, and no later sub-path of the list is
\* attempted.
C10_FirstFailureStops ==
    \A t \in Tasks :
        DeleteDone(t) =>
            LET list == KnownPaths(cmd_of(t)) IN
              IF Failed(t)
                THEN /\ idx[t] \in attempted[t]
                     /\ \A k \in 1 .. Len(list) : k > idx[t] => k \notin attempted[t]
                ELSE /\ Succeeded(t)
                     /\ idx[t] = Len(list) + 1
                     /\ \A k \in attempted[t] :
                            ~PathExists(fs, Append(path_of(t), list[k]))

\* C10 witness: a task Failed on one sub-path and a later sub-path of its
\* list is still there, never attempted.
C10_Witness ==
    \E t \in Tasks :
        /\ DeleteDone(t)
        /\ Failed(t)
        /\ \E k \in (idx[t] + 1) .. Len(KnownPaths(cmd_of(t))) :
              /\ PathExists(fs, Append(path_of(t), KnownPaths(cmd_of(t))[k]))
              /\ k \notin attempted[t]

\* C11: in an external-command cleanup run_clean returns an Err exactly when
\* the command could not be spawned; once the process has run, whatever its
\* exit code, the task takes the Ok branch and ends Succeeded.
C11_ErrIffSpawnFails ==
    [][\A t \in Tasks :
          IsExternal(cmd_of(t)) =>
            /\ (pc[t] = "queued" /\ pc'[t] # "queued")
                  => IF SpawnFails(fs, path_of(t))
                       THEN results'[t] = ErrOutcome(sizes_before[t])
                       ELSE pc'[t] = "spawned" /\ results'[t] = <<>>
            /\ (pc[t] = "spawned" /\ pc'[t] # "spawned")
                  => pc'[t] = "measuring" /\ results'[t] = <<>>
            /\ (pc[t] = "measuring" /\ pc'[t] # "measuring")
                  => results'[t] # <<>> /\ results'[t][1] = 1]_vars

\* C11 witness: of two external-command tasks one ran and is Succeeded, the
\* other could not be spawned and is Failed.
C11_Witness ==
    /\ phase = "done"
    /\ \E t \in Tasks : IsExternal(cmd_of(t)) /\ Succeeded(t)
    /\ \E u \in Tasks : IsExternal(cmd_of(u)) /\ Failed(u)

\* the ecosystems handed to do_clean_all
Ecosystems == {commands[i] : i \in 1 .. Len(commands)}

TaskCount(d, c) == Cardinality({t \in Tasks : path_of(t) = d /\ cmd_of(t) = c})

\* the scan of the run has seen d
Scanned(d) == fs_plan.ex[d] /\ Reachable(d)

\* a marker file of ecosystem c lies directly inside d
HasMarker(d, c) == \E file \in related_files(c) : <<d, file>> \in markers

\* C12: for every scanned directory whose name is not excluded the plan holds
\* exactly one task per ecosystem with a marker file directly inside it and
\* none for the other ecosystems: k matching ecosystems give k tasks, no
\* match gives none, a marker in a sub-directory gives the parent nothing.
C12_OneTaskPerMatch ==
    phase # "start" =>
        /\ \A d \in Universe : \A c \in Ecosystems :
              (Scanned(d) /\ ~Excluded(file_name(d), exclude_dirs))
                => TaskCount(d, c) = (IF HasMarker(d, c) THEN 1 ELSE 0)
        /\ \A t \in Tasks : Scanned(path_of(t)) /\ cmd_of(t) \in Ecosystems

\* C12 witness: a directory matches two ecosystems and has two tasks, while
\* its parent, scanned, not excluded and without a marker of its own, has none.
C12_Witness ==
    /\ phase # "start"
    /\ \E t, u \in Tasks : t # u /\ path_of(t) = ABB /\ path_of(u) = ABB
    /\ ~Excluded(file_name(AB), exclude_dirs)
    /\ \A c \in Ecosystems : TaskCount(AB, c) = 0

\* C13: a match does not end the scan below it: when a directory has a task,
\* every scanned, not excluded directory below it that has a marker file of
\* an ecosystem directly inside has its own task for that ecosystem.
C13_NestedProjectsPlanned ==
    phase # "start" =>
        \A t \in Tasks : \A d \in Universe : \A c \in Ecosystems :
            (/\ d # path_of(t)
             /\ IsPrefix(path_of(t), d)
             /\ Scanned(d)
             /\ ~Excluded(file_name(d), exclude_dirs)
             /\ HasMarker(d, c))
              => \E u \in Tasks : path_of(u) = d /\ cmd_of(u) = c

\* C13 witness: a project and a project nested two levels below it are both
\* planned.
C13_Witness ==
    /\ phase # "start"
    /\ \E t, u \in Tasks : path_of(t) = A /\ path_of(u) = ABB

RECURSIVE FilesIn(_, _)
FilesIn(f, ds) == IF ds = <<>> THEN 0 ELSE NFiles(f, Head(ds)) + FilesIn(f, Tail(ds))

\* the regular files at most k levels below p
FilesWithin(f, p, k) ==
    FilesIn(f, SelectSeq(WalkOrder,
                         LAMBDA d : f.ex[d] /\ IsPrefix(p, d) /\ Len(d) - Len(p) <= k))

\* C14: a measured size is bounded by the limits configured for the run: it
\* is the sum of at most max_files files, and of no file that lies deeper
\* than max_depth below the measured directory.
C14_SizeWithinScanLimits ==
    \A t \in Tasks :
        pc[t] \notin {"wait", "sizing"} =>
            /\ sizes_before[t] <= max_files
            /\ sizes_before[t] <= FilesWithin(fs_plan, path_of(t), max_depth)
            /\ Succeeded(t) => results[t][3] <= max_files

\* the size-before of t is there
Sized(t) == pc[t] \notin {"wait", "sizing"}

\* C15: a size walk that ends at the file-count ceiling returns the partial
\* sum (at least the ceiling, at most the true size), and the value handed to
\* the caller tells such a lower bound from an exact measurement: no exact
\* measurement returns what a walk cut short returns.
C15_LowerBoundTold ==
    \A t \in Tasks :
        (Sized(t) /\ SizeLimitReached(fs_plan, path_of(t))) =>
            /\ sizes_before[t] >= MAX_FILES_PER_PROJECT
            /\ sizes_before[t] <= FilesWithin(fs_plan, path_of(t), MAX_DIRECTORY_DEPTH)
            /\ \A u \in Tasks :
                  (Sized(u) /\ ~SizeLimitReached(fs_plan, path_of(u)))
                    => sizes_before[u] # sizes_before[t]

\* C16: when the root cannot be read the run ends with no task attempted and
\* with a result that is not the result of a successful run that found no
\* project (the count 0 of lib.rs:109).
C16_RootFailureReported ==
    (phase = "done" /\ Root \in locked) =>
        /\ Tasks = {}
        /\ total_cleaned # 0

\* the directories at or below p that a walk from p can read: no closed
\* directory lies between p and d, d included
ReadableBelow(f, p) ==
    SelectSeq(WalkOrder,
              LAMBDA d : /\ f.ex[d]
                         /\ IsPrefix(p, d)
                         /\ \A b \in locked : ~(IsPrefix(p, b) /\ IsPrefix(b, d)))

\* C17: a sub-directory that cannot be read aborts nothing: every directory
\* outside it that is not excluded and holds a marker file is planned, every
\* measured size is the sum of the files of the readable directories, and the
\* run ends with an outcome for every planned task.
C17_UnreadableSkipped ==
    \A a \in locked \ {Root} :
        /\ phase # "start" =>
              \A d \in Universe : \A c \in Ecosystems :
                  (/\ fs_plan.ex[d]
                   /\ ~IsPrefix(a, d)
                   /\ ~Excluded(file_name(d), exclude_dirs)
                   /\ HasMarker(d, c))
                    => \E t \in Tasks : path_of(t) = d /\ cmd_of(t) = c
        /\ \A t \in Tasks :
              Sized(t) => sizes_before[t] = FilesIn(fs_plan, ReadableBelow(fs_plan, path_of(t)))
        /\ phase = "done" => \A t \in Tasks : results[t] # <<>>

\* C17 witness: a run over a tree with a closed sub-directory has ended; a
\* project above the closed directory and a project beside it were planned,
\* and the size of the first leaves out the files below the closed directory.
C17_Witness ==
    /\ phase = "done"
    /\ AN \in locked
    /\ \E t, u \in Tasks :
          /\ path_of(t) = A
          /\ path_of(u) = ABB
          /\ sizes_before[t] > sizes_before[u]
          /\ sizes_before[t] < FilesWithin(fs_plan, A, MAX_DIRECTORY_DEPTH)

\* C18: the returned count is the number of planned tasks whose cleanup
\* action returned Ok: a task that ends after its Ok branch adds 1, a task
\* that ends on an Err adds 0, so the count is at most the number of planned
\* tasks, and it is 0 when nothing is planned.
C18_CountIsSucceeded ==
    /\ [][\A t \in Tasks :
            (pc[t] # "done" /\ pc'[t] = "done")
              => results'[t][1] = (IF pc[t] = "measuring" THEN 1 ELSE 0)]_vars
    /\ [](phase = "done" =>
            /\ total_cleaned = Cardinality({t \in Tasks : results[t][1] = 1})
            /\ total_cleaned <= Len(cleaning_tasks)
            /\ (Tasks = {} => total_cleaned = 0))

\* C18 witness: a run of two tasks has ended with the count 1.
C18_Witness ==
    /\ phase = "done"
    /\ Len(cleaning_tasks) = 2
    /\ total_cleaned = 1

\* C19: a configuration in which max_concurrent, max_depth or max_files is
\* set to 0 or above its ceiling (64, 1000, 100000) is rejected by validate,
\* the default configuration is accepted, and the semaphore of a run that has
\* passed validate has a capacity of at least 1.
C19_LimitsValidated ==
    /\ (/\ stage # "loaded"
         /\ \/ \E n \in config.max_concurrent : n = 0 \/ n > 64
            \/ \E n \in config.max_depth : n = 0 \/ n > 1000
            \/ \E n \in config.max_files : n = 0 \/ n > 100000)
          => stage = "invalid"
    /\ (stage # "loaded" /\ config = DefaultConfig) => stage # "invalid"
    /\ phase # "idle" => max_concurrent >= 1
    /\ phase = "presize" => permits + Held >= 1

\* C19 witness: a run has passed validate with max_concurrent at its ceiling
\* and has built its semaphore.
C19_Witness ==
    /\ phase = "presize"
    /\ config.max_concurrent = {64}
    /\ permits = 64

\* C20: the root path of a MergedConfig that merge_with_cli has returned
\* exists, is a directory, is canonical and lies inside the tree of the
\* current working directory.
C20_RootPathValidated ==
    stage \in {"merged", "launched"} =>
        /\ canonicalize(merged.path).ok
        /\ is_dir(merged.path)
        /\ merged.path = canonicalize(merged.path).path
        /\ path_starts_with(merged.path, path_string(current_dir))

\* C21: merge_with_cli gives the command line precedence: a non-empty list of
\* --exclude-types replaces the list of the file, likewise for --exclude-dirs;
\* an empty list of the command line falls back to the list of the file or to
\* the empty list; --path wins over default_path; max_concurrent, max_depth
\* and max_files are those of the file, unchanged.
C21_CliTakesPrecedence ==
    stage \in {"merged", "launched"} =>
        /\ merged.exclude_types =
             (IF cli_exclude_types # <<>> THEN cli_exclude_types
              ELSE IF config.exclude_types = {} THEN <<>>
              ELSE the(config.exclude_types))
        /\ merged.exclude_dirs =
             (IF cli_exclude_dirs # <<>> THEN cli_exclude_dirs
              ELSE IF config.exclude_dirs = {} THEN <<>>
              ELSE the(config.exclude_dirs))
        /\ cli_path # {} => merged.path = canonicalize(the(cli_path)).path
        /\ merged.max_concurrent = config.max_concurrent
        /\ merged.max_depth = config.max_depth
        /\ merged.max_files = config.max_files

\* the file and the command line both name types to exclude, and differ
C21_Witness ==
    /\ stage = "merged"
    /\ cli_exclude_types # <<>>
    /\ config.exclude_types # {}
    /\ the(config.exclude_types) # cli_exclude_types
    /\ merged.exclude_types = cli_exclude_types

\* the root path that merge_with_cli chooses to validate, an Option: --path,
\* else default_path, else none
ChosenPath == IF cli_path # {} THEN cli_path ELSE config.default_path

\* C22: merge_with_cli returns an error and no MergedConfig whenever the chosen
\* root path fails path validation or a name of --exclude-dirs fails name
\* validation, and returns Ok when the path and every such name are valid.
C22_MergeErrIffInvalid ==
    stage \in {"merged", "rejected", "launched"} =>
        /\ merged.ok <=>
             /\ \A path_str \in ChosenPath : validate_and_sanitize_path(path_str).ok
             /\ \A i \in 1 .. Len(cli_exclude_dirs) :
                    validate_exclude_dir_name(cli_exclude_dirs[i])
        /\ merged.ok <=> stage # "rejected"
        /\ ~merged.ok => DOMAIN merged = {"ok"}

\* the path is fine and a name of the command line holds a separator
C22_Witness ==
    /\ stage = "rejected"
    /\ \A path_str \in ChosenPath : validate_and_sanitize_path(path_str).ok
    /\ \E i \in 1 .. Len(cli_exclude_dirs) : contains(cli_exclude_dirs[i], <<"/">>)

\* the path, lower-cased and with '/' for '\', is a listed system directory
\* or lies below one, component by component
UnderSystemDir(path_str) ==
    \E k \in 1 .. Len(dangerous_patterns) :
        path_starts_with(to_lowercase(replace_backslash(path_str)), dangerous_patterns[k])

HasTraversal(path_str) ==
    \/ contains(replace_backslash(path_str), <<".", ".", "/">>)
    \/ contains(replace_backslash(path_str), <<"~", "/">>)

\* C23: validate_and_sanitize_path rejects the empty path, every path with
\* '../' or '~/' once backslashes are read as slashes, every absolute path
\* that is a listed system directory or lies under one (in any letter case),
\* and every path that does not exist.
C23_RejectsUnsafePaths ==
    stage = "path_checked" =>
        LET path_str == the(cli_path) IN
          (\/ path_str = <<>>
           \/ HasTraversal(path_str)
           \/ is_absolute(path_str) /\ UnderSystemDir(path_str)
           \/ ~canonicalize(path_str).ok)
            => ~merged.ok

\* what C24 asks of a name
NameAllowed(dir_name) ==
    /\ dir_name # <<>>
    /\ ~contains(dir_name, <<".", ".">>)
    /\ ~contains(dir_name, <<"/">>)
    /\ ~contains(dir_name, <<"\\">>)
    /\ to_lowercase(dir_name) \notin windows_reserved
    /\ Len(dir_name) <= 255

\* C24: validate_exclude_dir_name accepts a name if and only if it is
\* non-empty, holds no '..', '/' or '\', is not a Windows reserved device name
\* in any letter case, and is at most 255 bytes long.
C24_NameAcceptedIff ==
    stage = "name_checked" => (merged.ok <=> NameAllowed(cli_exclude_dirs[1]))

\* C24, amended: validate_exclude_dir_name accepts a name if and only if it is
\* non-empty, is not '.', holds no '..', '/' or '\', is not a Windows reserved
\* device name in any letter case, and is at most 255 bytes long; a name of
\* exactly 255 bytes is accepted and one of 256 is rejected.
C24_NameAcceptedIffNotDot ==
    stage = "name_checked" =>
        LET dir_name == cli_exclude_dirs[1] IN
          /\ merged.ok <=> (NameAllowed(dir_name) /\ dir_name # <<".">>)
          /\ dir_name = LongName(255) => merged.ok
          /\ dir_name = LongName(256) => ~merged.ok

\* a name of exactly 255 bytes has been accepted
C24_Witness ==
    stage = "name_checked" /\ Len(cli_exclude_dirs[1]) = 255 /\ merged.ok

\* C29: validate_and_sanitize_path accepts every existing directory that lies
\* inside the tree of the working directory and is written without '../' or
\* '~/', given as a relative or as an absolute path, and returns its
\* canonical form.
C29_AcceptsDirsInsideTree ==
    stage = "path_checked" =>
        LET path_str == the(cli_path) IN
          (/\ is_dir(path_str)
           /\ path_starts_with(canonicalize(path_str).path, path_string(current_dir))
           /\ ~HasTraversal(path_str))
            => /\ merged.ok
               /\ merged.path = canonicalize(path_str).path

\* what a finished task has freed by C25: max(0, sizeBefore - sizeAfter) when
\* it Succeeded, 0 when it Failed
FreedBy(t) ==
    IF Succeeded(t) /\ results[t][2] > results[t][3]
      THEN results[t][2] - results[t][3]
      ELSE 0

RECURSIVE FreedUpTo(_)
FreedUpTo(n) == IF n = 0 THEN 0 ELSE FreedBy(n) + FreedUpTo(n - 1)

\* C25: the total space freed of a run is the sum, over the tasks that
\* Succeeded, of max(0, sizeBefore - sizeAfter); a task that Failed adds 0 and
\* a task whose directory grew takes nothing from the amounts of the others.
C25_TotalIsSumOfFreed ==
    (phase = "done" /\ cleaning_tasks # <<>>) =>
        total_freed = FreedUpTo(Len(cleaning_tasks))

\* the files of directory d in tree f, none when d is gone
FilesAt(f, d) == IF f.ex[d] THEN NFiles(f, d) ELSE 0

\* the bytes that are in tree f0 and no longer in tree f1, summed over the
\* directories ds
RECURSIVE RemovedIn(_, _, _)
RemovedIn(f0, f1, ds) ==
    IF ds = <<>> THEN 0
    ELSE (IF FilesAt(f0, Head(ds)) > FilesAt(f1, Head(ds))
            THEN FilesAt(f0, Head(ds)) - FilesAt(f1, Head(ds))
            ELSE 0)
         + RemovedIn(f0, f1, Tail(ds))

\* C26: the total space freed of a run never exceeds the bytes that the run
\* removed from the tree, also when one directory yields several tasks or one
\* task's directory lies inside another's.  Stated for the runs in which
\* every task Succeeded.
C26_FreedWithinRemoved ==
    (phase = "done" /\ \A t \in Tasks : Succeeded(t)) =>
        total_freed <= RemovedIn(fs_plan, fs, WalkOrder)

\* the permits of the semaphore that are in use
InUse == max_concurrent - permits

\* C27: every permit acquired is released when its task finishes, on the
\* success path and on the failure path: the permits in use are those of the
\* tasks at work, between 0 and N, and none is in use when the pre-size pass
\* ends and when the run ends.
C27_PermitsReleased ==
    (cleaning_tasks # <<>> /\ phase \in {"presize", "clean", "done"}) =>
        /\ InUse \in 0 .. max_concurrent
        /\ InUse = Held
        /\ \A t \in Tasks : pc[t] \in {"sized", "done"} => ~HoldsPermit(t)
        /\ (phase = "clean" /\ \A t \in Tasks : pc[t] = "queued") => InUse = 0
        /\ phase = "done" => InUse = 0

\* a run has ended with a task that Failed and a task that Succeeded
C27_Witness ==
    /\ phase = "done"
    /\ \E t \in Tasks : Failed(t)
    /\ \E t \in Tasks : Succeeded(t)
    /\ permits = max_concurrent

\* C28: the size-before that the cleanup pass uses for a task is the one
\* measured for that task's own directory in the pre-size pass, in whatever
\* order the concurrent measurements completed.
C28_SizeBeforeOfOwnDir ==
    \A t \in Tasks :
        /\ (phase = "presize" /\ pc[t] = "sized")
             => sizes_before[t] = get_dir_size_async(fs_plan, path_of(t))
        /\ (phase \in {"clean", "done"} /\ results[t] # <<>>)
             => results[t][2] = get_dir_size_async(fs_plan, path_of(t))

\* the measurement of the second task has completed before that of the first,
\* and the two directories differ in size
C28_Witness ==
    /\ phase = "presize"
    /\ Len(cleaning_tasks) = 2
    /\ pc[1] = "sizing"
    /\ pc[2] = "sized"
    /\ sizes_before[2] = get_dir_size_async(fs_plan, path_of(2))
    /\ get_dir_size_async(fs_plan, path_of(1)) # get_dir_size_async(fs_plan, path_of(2))

\* the keys of a stored file, those of Config and the others, each with what
\* the file holds for it; nothing for a file that is not there
Stored(file, key) ==
    IF file = {} THEN {}
    ELSE IF key \in ConfigKeys THEN the(file)[key]
    ELSE IF key \in the(file).other THEN {"kept"}
    ELSE {}

\* the value parses for the key
Parses(key, value) ==
    /\ key \in {"max_concurrent", "max_depth", "max_files"} => parse_usize(value) # {}
    /\ key = "verbose" => parse_bool(value) # {}

\* C30: set_user_config_value changes only the named key of the stored
\* configuration and leaves every other key as it was; with an unknown key or
\* a value that does not parse for the key it returns an error and the file
\* is left unchanged.
C30_SetChangesOnlyKey ==
    [][\A call \in set_result' :
         /\ call.ok =>
              \A key \in KeyInputs \ {call.key} :
                  Stored(user_file', key) = Stored(user_file, key)
         /\ (call.key \notin ConfigKeys \/ ~Parses(call.key, call.value))
              => (~call.ok /\ user_file' = user_file)]_vars

====
